---- MODULE Spec2Model ----
(***************************************************************************)
(* Model of wavematic/wave.py: TimeAxis, the Signal variants Wave and      *)
(* Noise, and the Wavematic compositor.                                    *)
(*                                                                         *)
(* Numbers.  A Python argument is either a number or a non-numeric value   *)
(* (the tests use the string "bad").  A number is held as an integer count *)
(* of ticks, one tick being 1/Unit, so that rate * duration has a          *)
(* fractional part and int() has something to truncate.  Timestamps are    *)
(* exact rationals <<numerator, denominator>> in lowest terms; the model   *)
(* does not reproduce floating-point rounding.                             *)
(*                                                                         *)
(* Optional values.  Python's None is the empty sequence and a present     *)
(* value x is <<x>>.                                                       *)
(***************************************************************************)
EXTENDS Integers, Sequences, FiniteSets

VARIABLES
    heap,   \* the list objects: heap[l] is the content of list object l
    wms,    \* the Wavematic objects: wms[i].signals is a reference into heap
    ta,     \* the TimeAxis object under test, None before construction
    call,   \* the last call: operation, receiver, arguments, exception raised
    ret     \* the value the program holds from the last call that returned one

vars == <<heap, wms, ta, call, ret>>

-----------------------------------------------------------------------------
(* Bounds of the model *)

Unit == 2
MaxDuration == 3
MaxRate == 4
MaxStart == 1
MaxSignals == 2
MaxWm == 2

-----------------------------------------------------------------------------
(* Optional values, numbers, rationals *)

None == <<>>
Some(x) == <<x>>
The(o) == o[1]

Num(v) == [num |-> TRUE, v |-> v]
Bad == [num |-> FALSE, v |-> 0]

Abs(x) == IF x < 0 THEN -x ELSE x

RECURSIVE Gcd(_, _)
Gcd(a, b) == IF b = 0 THEN a ELSE Gcd(b, a % b)

\* The rational n/d (d > 0) in lowest terms.
Rat(n, d) ==
    LET g == Gcd(Abs(n), d)
    IN  <<n \div g, d \div g>>

RatLess(p, q) == p[1] * q[2] < q[1] * p[2]

\* Python's int() on the quotient n/d: truncation towards zero.
IntTrunc(n, d) == IF n >= 0 THEN n \div d ELSE -((-n) \div d)

Range(s) == {s[i] : i \in 1..Len(s)}

\* The elements of a set of rationals in ascending order.
RECURSIVE SortedSeq(_)
SortedSeq(S) ==
    IF S = {} THEN <<>>
    ELSE LET m == CHOOSE x \in S : \A y \in S : ~RatLess(y, x)
         IN  <<m>> \o SortedSeq(S \ {m})

PosOf(s, x) == CHOOSE i \in 1..Len(s) : s[i] = x

-----------------------------------------------------------------------------
(* Results of calls *)

NoSeries == [name |-> None, index |-> <<>>, vals |-> <<>>]
NoTable == [index |-> <<>>, columns |-> <<>>]

Ok(v) == [exc |-> "none", val |-> v]
Raise(e, v) == [exc |-> e, val |-> v]

-----------------------------------------------------------------------------
(* TimeAxis *)

NoArgs == [duration |-> Num(0), rate |-> Num(0), start |-> Num(0)]

\* A variant of TimeAxis.__init__ that does not reject a negative rate.
TimeAxis_init_no_rate_check(duration, rate, start) ==
    IF ~duration.num THEN Raise("TypeError", NoArgs)
    ELSE IF duration.v < 0 THEN Raise("ValueError", NoArgs)
    ELSE IF ~rate.num THEN Raise("TypeError", NoArgs)
    ELSE Ok([duration |-> duration, rate |-> rate, start |-> start])

\* TimeAxis.__init__: a comparison of a non-number with 0 raises TypeError,
\* a negative number raises ValueError; duration is examined before rate and
\* start is not examined.
TimeAxis_init(duration, rate, start) ==
    IF ~duration.num THEN Raise("TypeError", NoArgs)
    ELSE IF duration.v < 0 THEN Raise("ValueError", NoArgs)
    ELSE IF ~rate.num THEN Raise("TypeError", NoArgs)
    ELSE IF rate.v < 0 THEN Raise("ValueError", NoArgs)
    ELSE Ok([duration |-> duration, rate |-> rate, start |-> start])

\* np.linspace(start, stop, n) with endpoint=True, on ticks: n evenly spaced
\* values, the first start, the last stop (when n >= 2).
linspace(start, stop, n) ==
    IF n < 0 THEN Raise("ValueError", <<>>)
    ELSE IF n = 0 THEN Ok(<<>>)
    ELSE IF n = 1 THEN Ok(<<Rat(start, Unit)>>)
    ELSE Ok([k \in 1..n |->
               Rat(start * (n - 1) + (k - 1) * (stop - start), Unit * (n - 1))])

\* A variant of TimeAxis.get that rounds rate * duration up instead of
\* truncating it.
TimeAxis_get_ceil(a) ==
    IF ~a.start.num THEN Raise("TypeError", <<>>)
    ELSE LET start == a.start.v
             t == a.duration.v
             stop == start + t
             r == a.rate.v
         IN  linspace(start, stop, IntTrunc(r * t + Unit * Unit - 1, Unit * Unit))

\* TimeAxis.get on an object whose duration and rate are numbers (every
\* constructed object; only start is reassigned in this model).  start + t
\* raises TypeError when start is not a number.
TimeAxis_get(a) ==
    IF ~a.start.num THEN Raise("TypeError", <<>>)
    ELSE LET start == a.start.v
             t == a.duration.v
             stop == start + t
             r == a.rate.v
         IN  linspace(start, stop, IntTrunc(r * t, Unit * Unit))

-----------------------------------------------------------------------------
(* Signals *)

\* A series label: a string, or an integer (the positional fallback of
\* Wavematic.all_signals, or a name the caller chose to be an integer).
StrName(s) == [kind |-> "str", s |-> s, i |-> 0]
IntName(i) == [kind |-> "int", s |-> "", i |-> i]

\* An axis given in whole units of time.
Axis(duration, rate, start) ==
    [duration |-> Num(duration * Unit), rate |-> Num(rate * Unit),
     start |-> Num(start * Unit)]

\* Wave.__init__ and Noise.__init__ store their arguments; Noise's name
\* defaults to "Noise", Wave's to None, amp to 0.
Wave(ta_, freq, amp, phase, disp, kind, name) ==
    [cls |-> "Wave", ta |-> ta_, name |-> name, freq |-> freq, amp |-> amp,
     phase |-> phase, disp |-> disp, kind |-> kind, seed |-> 0]

Noise(ta_, amp, seed, name) ==
    [cls |-> "Noise", ta |-> ta_, name |-> name, freq |-> 0, amp |-> amp,
     phase |-> 0, disp |-> 0, kind |-> "", seed |-> seed]

\* funcs[kind] at base = pi * x, x = 2 * f * t + p, for the rational t.
\* scipy.signal.square with the default duty 0.5 is 1 where base mod 2*pi is
\* below pi and -1 elsewhere.  Sine and sawtooth are not rational-valued;
\* the signals of this model use them with amp = 0 only, where the factor
\* does not reach the result.
func(kind, f, p, t) ==
    IF kind = "square"
    THEN IF (2 * f * t[1] + p * t[2]) % (2 * t[2]) < t[2] THEN 1 ELSE -1
    ELSE 0

\* noise.pnoise1 is an external function: a deterministic function of the
\* timestamp and the seed, here with values in -1..1.
pnoise1(t, base) == ((t[1] + t[2] + base) % 3) - 1

\* A variant of Noise.get that prefers the stored axis to the argument.
Noise_get_stored_first(sig, arg) ==
    LET a == IF sig.ta # None THEN sig.ta ELSE arg
    IN  IF a = None THEN Raise("MissingTimeAxis", NoSeries)
        ELSE LET ta_ser == TimeAxis_get(The(a))
             IN  IF ta_ser.exc # "none" THEN Raise(ta_ser.exc, NoSeries)
                 ELSE Ok([name |-> sig.name,
                          index |-> ta_ser.val,
                          vals |-> [k \in 1..Len(ta_ser.val) |->
                                      pnoise1(ta_ser.val[k], sig.seed) * sig.amp]])

\* Noise.get(ta)
Noise_get(sig, arg) ==
    LET a == IF arg = None THEN sig.ta ELSE arg
    IN  IF a = None THEN Raise("MissingTimeAxis", NoSeries)
        ELSE LET ta_ser == TimeAxis_get(The(a))
             IN  IF ta_ser.exc # "none" THEN Raise(ta_ser.exc, NoSeries)
                 ELSE Ok([name |-> sig.name,
                          index |-> ta_ser.val,
                          vals |-> [k \in 1..Len(ta_ser.val) |->
                                      pnoise1(ta_ser.val[k], sig.seed) * sig.amp]])

\* Wave.get(ta)
Wave_get(sig, arg) ==
    LET a == IF arg = None THEN sig.ta ELSE arg
    IN  IF a = None THEN Raise("MissingTimeAxis", NoSeries)
        ELSE LET ta_ser == TimeAxis_get(The(a))
             IN  IF ta_ser.exc # "none" THEN Raise(ta_ser.exc, NoSeries)
                 ELSE Ok([name |-> sig.name,
                          index |-> ta_ser.val,
                          vals |-> [k \in 1..Len(ta_ser.val) |->
                                      func(sig.kind, sig.freq, sig.phase, ta_ser.val[k])
                                          * sig.amp + sig.disp]])

\* sig.get(...): dispatch on the signal's class.
Signal_get(sig, arg) ==
    IF sig.cls = "Noise" THEN Noise_get(sig, arg) ELSE Wave_get(sig, arg)

-----------------------------------------------------------------------------
(* Wavematic *)

\* Wavematic.__init__: a new list object for the signals; ensure_compatible
\* and force_self_ta are the attributes the instance reads.
Wavematic(list, ta_, name, ensure_compatible, force_self_ta) ==
    [signals |-> list, ta |-> ta_, name |-> name,
     ensure_compatible |-> ensure_compatible, force_self_ta |-> force_self_ta]

Count(s, x) == Cardinality({i \in 1..Len(s) : s[i] = x})

HasTa(s) == s.ta # None

\* The rates check_compatible collects: each contained signal's own axis
\* rate, then the Wavematic's own.
Rates(w, h) ==
    LET own == SelectSeq(h[w.signals], HasTa)
        rates == [k \in 1..Len(own) |-> The(own[k].ta).rate]
    IN  IF w.ta # None THEN Append(rates, The(w.ta).rate) ELSE rates

\* A variant of check_compatible that leaves the Wavematic's own axis out.
check_compatible_signals_only(w, sig, h) ==
    IF sig.ta # None
    THEN LET rate == The(sig.ta).rate
             own == SelectSeq(h[w.signals], HasTa)
             rates == [k \in 1..Len(own) |-> The(own[k].ta).rate]
         IN  Count(rates, rate) = Len(rates)
    ELSE TRUE

\* A variant of check_compatible that looks at the Wavematic's own axis
\* alone.
check_compatible_ta_only(w, sig, h) ==
    IF sig.ta # None
    THEN w.ta = None \/ The(w.ta).rate = The(sig.ta).rate
    ELSE TRUE

\* Wavematic.check_compatible(sig)
check_compatible(w, sig, h) ==
    IF sig.ta # None
    THEN LET rate == The(sig.ta).rate
             rates == Rates(w, h)
         IN  Count(rates, rate) = Len(rates)
    ELSE TRUE

\* Wavematic.add_signal(sig): the heap after the call, or the exception.
add_signal(w, sig, h) ==
    IF w.ensure_compatible /\ ~check_compatible(w, sig, h)
    THEN Raise("IncompatibleTimeAxisRates", h)
    ELSE Ok([h EXCEPT ![w.signals] = Append(@, sig)])

\* Wavematic.__iadd__(sig)
iadd(w, sig, h) == add_signal(w, sig, h)

\* A variant of copy that gives the copy a list object of its own.
copy_own_list(w, h) ==
    [obj |-> [w EXCEPT !.signals = Len(h) + 1],
     heap |-> Append(h, h[w.signals])]

\* Wavematic.copy(): copy.copy(self) copies the attribute references, the
\* reference to the list object among them.
copy(w, h) == [obj |-> w, heap |-> h]

\* A variant of the axis choice of all_signals that passes the Wavematic's
\* axis only when force_self_ta is set.
ForceSelfTa_flag_only(w, sig) == w.force_self_ta

\* all_signals: whether kwargs["ta"] = self.ta is passed to sig.get.
ForceSelfTa(w, sig) == (sig.ta = None) \/ w.force_self_ta

ColumnNames(tbl) == {tbl.columns[c].name : c \in 1..Len(tbl.columns)}

\* A variant of join that keeps only the timestamps both sides have.
join_inner(out, s) ==
    IF The(s.name) \in ColumnNames(out) THEN Raise("ValueError", NoTable)
    ELSE LET index == IF out.columns = <<>> THEN s.index
                      ELSE SortedSeq(Range(out.index) \cap Range(s.index))
             old(c) == [name |-> out.columns[c].name,
                        cells |-> [k \in 1..Len(index) |->
                                     out.columns[c].cells[PosOf(out.index, index[k])]]]
             new == [name |-> The(s.name),
                     cells |-> [k \in 1..Len(index) |->
                                  Some(s.vals[PosOf(s.index, index[k])])]]
         IN  Ok([index |-> index,
                 columns |-> Append([c \in 1..Len(out.columns) |-> old(c)], new)])

\* DataFrame.join(s, how="outer") on a named series: overlapping column
\* labels raise ValueError; the index becomes the sorted union of the two
\* indexes and a column has no value (NaN, here None) where its own index
\* had none.
join(out, s) ==
    IF The(s.name) \in ColumnNames(out) THEN Raise("ValueError", NoTable)
    ELSE LET index == SortedSeq(Range(out.index) \cup Range(s.index))
             old(c) == [name |-> out.columns[c].name,
                        cells |-> [k \in 1..Len(index) |->
                                     IF index[k] \in Range(out.index)
                                     THEN out.columns[c].cells[PosOf(out.index, index[k])]
                                     ELSE None]]
             new == [name |-> The(s.name),
                     cells |-> [k \in 1..Len(index) |->
                                  IF index[k] \in Range(s.index)
                                  THEN Some(s.vals[PosOf(s.index, index[k])])
                                  ELSE None]]
         IN  Ok([index |-> index,
                 columns |-> Append([c \in 1..Len(out.columns) |-> old(c)], new)])

\* The series all_signals obtains for the signal at 0-based position i:
\* sig.get(**kwargs), then the positional label when the series has none.
SignalSeries(w, sig, i) ==
    LET s == Signal_get(sig, IF ForceSelfTa(w, sig) THEN w.ta ELSE None)
    IN  IF s.exc # "none" THEN s
        ELSE IF s.val.name = None
             THEN Ok([s.val EXCEPT !.name = Some(IntName(i))])
             ELSE s

\* The loop of all_signals from the signal at 1-based position k on.
RECURSIVE all_signals_loop(_, _, _, _)
all_signals_loop(w, sigs, k, out) ==
    IF k > Len(sigs) THEN Ok(out)
    ELSE LET s == SignalSeries(w, sigs[k], k - 1)
         IN  IF s.exc # "none" THEN Raise(s.exc, NoTable)
             ELSE LET j == join(out, s.val)
                  IN  IF j.exc # "none" THEN j
                      ELSE all_signals_loop(w, sigs, k + 1, j.val)

\* Wavematic.all_signals()
all_signals(w, h) == all_signals_loop(w, h[w.signals], 1, NoTable)

RECURSIVE SumCells(_, _, _)
SumCells(columns, k, c) ==
    IF c > Len(columns) THEN 0
    ELSE (IF columns[c].cells[k] = None THEN 0 ELSE The(columns[c].cells[k]))
         + SumCells(columns, k, c + 1)

\* DataFrame.sum(axis=1): the row sums, a missing value left out.
RowSum(tbl) ==
    [name |-> None, index |-> tbl.index,
     vals |-> [k \in 1..Len(tbl.index) |-> SumCells(tbl.columns, k, 1)]]

\* Wavematic.get()
Wavematic_get(w, h) ==
    LET t == all_signals(w, h)
    IN  IF t.exc # "none" THEN Raise(t.exc, NoSeries)
        ELSE LET out == RowSum(t.val)
             IN  Ok(IF w.name # None THEN [out EXCEPT !.name = w.name] ELSE out)

-----------------------------------------------------------------------------
(* Inputs *)

Ta1 == Axis(2, 2, 0)    \* 4 timestamps: 0, 2/3, 4/3, 2
Ta2 == Axis(1, 2, 0)    \* 2 timestamps: 0, 1
Ta3 == Axis(1, 3, 0)    \* 3 timestamps: 0, 1/2, 1

AxisChoices == {Ta2, Ta3}

SigChoices ==
    { Wave(None, 0, 0, 0, 1, "sine", None),
      Wave(Some(Ta1), 1, 1, 0, 0, "square", None),
      Wave(Some(Ta3), 0, 0, 0, 2, "sine", Some(StrName("a"))),
      Wave(None, 0, 0, 0, 2, "sine", Some(IntName(0))),
      Noise(None, 0, 0, Some(StrName("Noise"))),
      Noise(Some(Ta2), 1, 0, Some(StrName("Noise"))) }

\* The signals composed where only their axes matter.
AddChoices ==
    { Wave(None, 0, 0, 0, 1, "sine", None),
      Wave(Some(Ta1), 1, 1, 0, 0, "square", None),
      Wave(Some(Ta3), 0, 0, 0, 2, "sine", Some(StrName("a"))) }

NameChoices == {None, Some(StrName("sum"))}

\* The arguments tried on TimeAxis: numbers in ticks, negative ones, and a
\* non-number.
DurationArgs == {Bad} \cup {Num(v) : v \in -1..MaxDuration}
RateArgs == {Bad} \cup {Num(v) : v \in -1..MaxRate}
StartArgs == {Bad} \cup {Num(v) : v \in -1..MaxStart}

-----------------------------------------------------------------------------
(* The state machine *)

Call(op, w, sig, arg, exc) ==
    [op |-> op, w |-> w, sig |-> sig, arg |-> arg, exc |-> exc]

Ret(op, val) == [op |-> op, val |-> val]
NoRet == Ret("", None)

\* The state after w = Wavematic(ta=a), with ensure_compatible and
\* force_self_ta as the caller set them (the class gives TRUE and FALSE).
InitWith(TA, EC, FS) ==
    /\ heap = << <<>> >>
    /\ \E a \in TA, ec \in EC, fs \in FS :
          wms = <<Wavematic(1, a, None, ec, fs)>>
    /\ ta = None
    /\ call = Call("", 0, None, None, "none")
    /\ ret = NoRet

OptAxes == {None} \cup {Some(x) : x \in AxisChoices}

\* The axes assigned to a Wavematic's ta where it is reassigned.
SetTaChoices == {None, Some(Ta3)}

\* ensure_compatible and force_self_ta as the class sets them.
Init == InitWith(SetTaChoices, {TRUE}, {FALSE})

InitCompat == InitWith(OptAxes, BOOLEAN, {FALSE})

InitTable == InitWith(OptAxes, BOOLEAN, BOOLEAN)

\* The state after Wavematic() with the class defaults.
InitAxis ==
    /\ heap = << <<>> >>
    /\ wms = <<Wavematic(1, None, None, TRUE, FALSE)>>
    /\ ta = None
    /\ call = Call("", 0, None, None, "none")
    /\ ret = NoRet

\* ta = TimeAxis(duration, rate, start): on an exception the name ta keeps
\* the object it had.
TimeAxisInit(duration, rate, start) ==
    LET r == TimeAxis_init(duration, rate, start)
        args == [duration |-> duration, rate |-> rate, start |-> start]
    IN  /\ ta' = IF r.exc = "none" THEN Some(r.val) ELSE ta
        /\ call' = Call("TimeAxis", 0, None, Some(args), r.exc)
        /\ ret' = IF r.exc = "none" THEN Ret("TimeAxis", Some(r.val)) ELSE NoRet
        /\ UNCHANGED <<heap, wms>>

\* ta.start = start
SetStart(start) ==
    /\ ta # None
    /\ ta' = Some([The(ta) EXCEPT !.start = start])
    /\ call' = Call("set_start", 0, None, ta', "none")
    /\ UNCHANGED <<heap, wms, ret>>

\* ta_ser = ta.get()
TimeAxisGet ==
    /\ ta # None
    /\ LET r == TimeAxis_get(The(ta))
       IN  /\ call' = Call("TimeAxis.get", 0, None, None, r.exc)
           /\ ret' = IF r.exc = "none" THEN Ret("TimeAxis.get", r.val) ELSE NoRet
    /\ UNCHANGED <<heap, wms, ta>>

\* sig.get(arg) on a Wave or a Noise
SignalGet(sig, arg) ==
    /\ LET r == Signal_get(sig, arg)
       IN  /\ call' = Call("Signal.get", 0, Some(sig), arg, r.exc)
           /\ ret' = IF r.exc = "none" THEN Ret("Signal.get", r.val) ELSE NoRet
    /\ UNCHANGED <<heap, wms, ta>>

\* wms[i].add_signal(sig)
AddSignal(i, sig) ==
    LET r == add_signal(wms[i], sig, heap)
    IN  /\ r.exc # "none" \/ Len(heap[wms[i].signals]) < MaxSignals
        /\ heap' = r.val
        /\ call' = Call("add_signal", i, Some(sig), None, r.exc)
        /\ ret' = IF r.exc = "none" THEN Ret("add_signal", i) ELSE NoRet
        /\ UNCHANGED <<wms, ta>>

\* wms[i] += sig
IAdd(i, sig) ==
    LET r == iadd(wms[i], sig, heap)
    IN  /\ r.exc # "none" \/ Len(heap[wms[i].signals]) < MaxSignals
        /\ heap' = r.val
        /\ call' = Call("__iadd__", i, Some(sig), None, r.exc)
        /\ ret' = IF r.exc = "none" THEN Ret("__iadd__", i) ELSE NoRet
        /\ UNCHANGED <<wms, ta>>

\* wms[i].copy(): the copy becomes the next Wavematic object.
Copy(i) ==
    /\ Len(wms) < MaxWm
    /\ LET c == copy(wms[i], heap)
       IN  /\ wms' = Append(wms, c.obj)
           /\ heap' = c.heap
    /\ call' = Call("copy", i, None, None, "none")
    /\ ret' = Ret("copy", Len(wms) + 1)
    /\ UNCHANGED ta

\* wms[i] + sig: out = self.copy(); out += sig; return out.  When += raises,
\* no reference to out is left.
Add(i, sig) ==
    /\ Len(wms) < MaxWm
    /\ LET c == copy(wms[i], heap)
           r == iadd(c.obj, sig, c.heap)
       IN  /\ r.exc # "none" \/ Len(c.heap[c.obj.signals]) < MaxSignals
           /\ wms' = IF r.exc = "none" THEN Append(wms, c.obj) ELSE wms
           /\ heap' = IF r.exc = "none" THEN r.val ELSE heap
           /\ call' = Call("__add__", i, Some(sig), None, r.exc)
           /\ ret' = IF r.exc = "none" THEN Ret("__add__", Len(wms) + 1) ELSE NoRet
    /\ UNCHANGED ta

\* wms[i].ta = a
SetTa(i, a) ==
    /\ wms' = [wms EXCEPT ![i].ta = a]
    /\ call' = Call("set_ta", i, None, a, "none")
    /\ UNCHANGED <<heap, ta, ret>>

\* wms[i].name = n
SetName(i, n) ==
    /\ wms' = [wms EXCEPT ![i].name = n]
    /\ call' = Call("set_name", i, None, None, "none")
    /\ UNCHANGED <<heap, ta, ret>>

\* wms[i].all_signals()
AllSignals(i) ==
    /\ LET r == all_signals(wms[i], heap)
       IN  /\ call' = Call("all_signals", i, None, None, r.exc)
           /\ ret' = IF r.exc = "none" THEN Ret("all_signals", r.val) ELSE NoRet
    /\ UNCHANGED <<heap, wms, ta>>

\* wms[i].get()
Get(i) ==
    /\ LET r == Wavematic_get(wms[i], heap)
       IN  /\ call' = Call("get", i, None, None, r.exc)
           /\ ret' = IF r.exc = "none" THEN Ret("get", r.val) ELSE NoRet
    /\ UNCHANGED <<heap, wms, ta>>

\* Composition: the calls and assignments that change Wavematic objects.
Next ==
    \/ \E i \in 1..Len(wms), sig \in AddChoices : AddSignal(i, sig)
    \/ \E i \in 1..Len(wms), sig \in AddChoices : IAdd(i, sig)
    \/ \E i \in 1..Len(wms), sig \in AddChoices : Add(i, sig)
    \/ \E i \in 1..Len(wms) : Copy(i)
    \/ \E i \in 1..Len(wms), a \in SetTaChoices : SetTa(i, a)
    \/ \E i \in 1..Len(wms), n \in NameChoices : SetName(i, n)

Spec == Init /\ [][Next]_vars

\* Evaluation: one Wavematic, filled by add_signal and then evaluated.
NextTable ==
    \/ \E i \in 1..Len(wms), sig \in SigChoices : AddSignal(i, sig)
    \/ \E i \in 1..Len(wms) : AllSignals(i)
    \/ \E i \in 1..Len(wms) : Get(i)

SpecTable == InitTable /\ [][NextTable]_vars

\* The calls that the rate-compatibility invariant is stated over.
NextCompat ==
    \/ \E i \in 1..Len(wms), sig \in SigChoices : AddSignal(i, sig)
    \/ \E i \in 1..Len(wms), sig \in SigChoices : IAdd(i, sig)
    \/ \E i \in 1..Len(wms), sig \in SigChoices : Add(i, sig)
    \/ \E i \in 1..Len(wms) : Copy(i)

SpecCompat == InitCompat /\ [][NextCompat]_vars

\* TimeAxis and single signals.
NextAxis ==
    \/ \E d \in DurationArgs, r \in RateArgs, s \in StartArgs : TimeAxisInit(d, r, s)
    \/ \E s \in StartArgs : SetStart(s)
    \/ TimeAxisGet
    \/ \E sig \in SigChoices, arg \in OptAxes \cup {ta} : SignalGet(sig, arg)

SpecAxis == InitAxis /\ [][NextAxis]_vars

-----------------------------------------------------------------------------
(* Properties of TimeAxis and of single signals, under SpecAxis *)

NonNum(x) == ~x.num
Neg(x) == x.num /\ x.v < 0

\* floor(rate * duration) for an axis whose rate and duration are numbers >= 0
Floor(a) ==
    LET p == a.rate.v * a.duration.v
    IN  CHOOSE n \in 0..p : n * Unit * Unit <= p /\ p < (n + 1) * Unit * Unit

C7_AtGet ==
    (call.op = "TimeAxis.get" /\ The(ta).start.num) =>
        LET a == The(ta)
            n == Floor(a)
            first == Rat(a.start.v, Unit)
            last == Rat(a.start.v + a.duration.v, Unit)
        IN  /\ call.exc = "none"
            /\ ret.op = "TimeAxis.get"
            /\ Len(ret.val) = n
            /\ n >= 2 => ret.val[1] = first /\ ret.val[n] = last
            /\ n = 1 => ret.val = <<first>>
            /\ n = 0 => ret.val = <<>>

C7_StartReassigned ==
    (/\ call.op = "set_start"
     /\ ret.op = "TimeAxis.get"
     /\ call'.op = "TimeAxis.get"
     /\ call'.exc = "none")
    => Len(ret'.val) = Len(ret.val)

\* C7: for a TimeAxis with rate >= 0 and duration >= 0, get() returns exactly
\* floor(rate * duration) timestamps computed from the fields as they are at
\* the call: the first is start and the last start + duration when there are
\* two or more, the only one is start when there is one, and there is none
\* when the count is 0; a get() that follows a reassignment of start returns
\* as many timestamps as the get() before it.
C7_TimeAxisGet == []C7_AtGet /\ [][C7_StartReassigned]_vars

C7_Witness ==
    /\ call.op = "TimeAxis.get"
    /\ call.exc = "none"
    /\ Len(ret.val) >= 2
    /\ The(ta).start.v # 0
    /\ (The(ta).rate.v * The(ta).duration.v) % (Unit * Unit) # 0

\* The exception TimeAxis.get raises on the object the name ta holds.
FirstGetExc == TimeAxis_get(The(ta)).exc

\* C8 as stated: a negative numeric duration or rate gives ValueError at
\* construction and no object; a non-numeric duration, rate or start, alone
\* or in any combination, gives TypeError no later than the first get().
C8_AsStated ==
    call.op = "TimeAxis" =>
        LET g == The(call.arg)
        IN  /\ (Neg(g.duration) \/ Neg(g.rate)) =>
                   call.exc = "ValueError" /\ ret = NoRet
            /\ (NonNum(g.duration) \/ NonNum(g.rate) \/ NonNum(g.start)) =>
                   \/ call.exc = "TypeError"
                   \/ call.exc = "none" /\ FirstGetExc = "TypeError"

\* C8, amended: with all three arguments numbers and duration or rate
\* negative, construction raises ValueError and yields no object; with a
\* non-number among the arguments and no negative duration or rate,
\* TypeError is raised no later than the first get(); when a negative number
\* and a non-number are combined, construction fails with the error of the
\* first invalid argument in the order duration, rate; and no timestamp
\* sequence is produced from an invalid argument set.
C8_Validation ==
    /\ call.op = "TimeAxis" =>
        LET g == The(call.arg)
            neg == Neg(g.duration) \/ Neg(g.rate)
            nonnum == NonNum(g.duration) \/ NonNum(g.rate) \/ NonNum(g.start)
        IN  /\ (neg /\ ~nonnum) => call.exc = "ValueError" /\ ret = NoRet
            /\ (nonnum /\ ~neg) =>
                   \/ call.exc = "TypeError" /\ ret = NoRet
                   \/ call.exc = "none" /\ FirstGetExc = "TypeError"
            /\ (neg /\ nonnum) =>
                   /\ ret = NoRet
                   /\ call.exc =
                        IF NonNum(g.duration) THEN "TypeError"
                        ELSE IF Neg(g.duration) THEN "ValueError"
                        ELSE IF NonNum(g.rate) THEN "TypeError"
                        ELSE "ValueError"
            /\ (~neg /\ ~nonnum) => call.exc = "none" /\ ta = Some(g)
    /\ (call.op = "TimeAxis.get" /\ NonNum(The(ta).start)) =>
           call.exc = "TypeError" /\ ret = NoRet

C8_Witness ==
    /\ call.op = "TimeAxis"
    /\ Neg(The(call.arg).duration)
    /\ NonNum(The(call.arg).rate)
    /\ call.exc = "ValueError"

\* C6: Wave.get(ta) and Noise.get(ta) use the argument axis when one is
\* passed and the stored axis otherwise; MissingTimeAxis is raised exactly
\* when there is neither; on success the series is indexed by the timestamps
\* of the resolved axis, in axis order, with one value for each.
C6_AxisResolution ==
    call.op = "Signal.get" =>
        LET sig == The(call.sig)
            resolved == IF call.arg # None THEN call.arg ELSE sig.ta
        IN  /\ call.exc = "MissingTimeAxis" <=> (call.arg = None /\ sig.ta = None)
            /\ resolved # None => call.exc = TimeAxis_get(The(resolved)).exc
            /\ call.exc = "none" =>
                   /\ ret.val.index = TimeAxis_get(The(resolved)).val
                   /\ Len(ret.val.vals) = Len(ret.val.index)

C6_Witness ==
    /\ call.op = "Signal.get"
    /\ call.exc = "none"
    /\ call.arg # None
    /\ The(call.sig).ta # None
    /\ The(call.sig).ta # call.arg
    /\ The(call.sig).cls = "Noise"
    /\ Len(ret.val.index) > 0

-----------------------------------------------------------------------------
(* Properties of composition, under Spec and SpecCompat *)

\* The signals of Wavematic object i.
SignalsOf(i) == heap[wms[i].signals]

\* The rates a signal's own axis must agree with: those of the contained
\* signals that have an axis, and the Wavematic's own.
EstablishedRates(i) ==
    {The(s.ta).rate : s \in {x \in Range(SignalsOf(i)) : x.ta # None}}
        \cup (IF wms[i].ta # None THEN {The(wms[i].ta).rate} ELSE {})

C1_Step ==
    (/\ call'.op = "add_signal"
     /\ wms[call'.w].ensure_compatible
     /\ The(call'.sig).ta # None
     /\ \E r \in EstablishedRates(call'.w) : r # The(The(call'.sig).ta).rate)
    => /\ call'.exc = "IncompatibleTimeAxisRates"
       /\ heap' = heap
       /\ wms' = wms

\* C1: with ensure_compatible set, add_signal(sig) for a sig whose own axis
\* rate differs from the rate of an already-added signal's axis or of the
\* Wavematic's own axis raises IncompatibleTimeAxisRates and leaves the
\* signal collection as it was.
C1_RejectIncompatible == [][C1_Step]_vars

C1_Witness ==
    /\ call.op = "add_signal"
    /\ call.exc = "IncompatibleTimeAxisRates"
    /\ Len(SignalsOf(call.w)) >= 1
    /\ wms[call.w].ta # None

\* C2: with ensure_compatible set, after any sequence of add_signal, +=, +
\* and copy() calls, the rates of the contained signals' own axes and of
\* the Wavematic's own axis are all equal.
C2_RateInvariant ==
    \A i \in 1..Len(wms) :
        wms[i].ensure_compatible => Cardinality(EstablishedRates(i)) <= 1

C2_Witness ==
    /\ Len(wms) = 2
    /\ wms[2].ensure_compatible
    /\ wms[2].ta # None
    /\ Len(SignalsOf(2)) = 2
    /\ \A k \in 1..2 : SignalsOf(2)[k].ta # None
    /\ call.exc = "IncompatibleTimeAxisRates"

C3_Step ==
    (call'.op = "__add__" /\ call'.exc = "none") =>
        LET w == call'.w
            out == ret'.val
            sigs == heap'[wms'[out].signals]
        IN  /\ out # w
            /\ sigs[Len(sigs)] = The(call'.sig)
            /\ heap'[wms'[w].signals] = heap[wms[w].signals]
            /\ wms'[w] = wms[w]

\* C3: w + sig returns a new Wavematic whose last signal is sig and leaves
\* w's signal collection, ta and name as they were.
C3_AddLeavesOriginal == [][C3_Step]_vars

C9_Shared ==
    \A i, j \in 1..Len(wms) :
        wms[i].signals = wms[j].signals /\ SignalsOf(i) = SignalsOf(j)

C9_AddedSeenByAll ==
    (call'.op \in {"add_signal", "__iadd__"} /\ call'.exc = "none") =>
        \A j \in 1..Len(wms) :
            heap'[wms'[j].signals] = Append(heap[wms[j].signals], The(call'.sig))

C9_AttributesOwn ==
    call'.op \in {"set_ta", "set_name"} =>
        /\ Len(wms') = Len(wms)
        /\ \A j \in 1..Len(wms) : j # call'.w => wms'[j] = wms[j]

\* C9: a Wavematic and its copies hold the same signal collection, so their
\* collections are equal in every state and a signal added through
\* add_signal or += on one is at once in the others, at the same position;
\* assigning ta or name on one leaves the others' ta and name unchanged.
C9_CopyAliasing ==
    /\ []C9_Shared
    /\ [][C9_AddedSeenByAll]_vars
    /\ [][C9_AttributesOwn]_vars

C9_Witness ==
    /\ Len(wms) = 2
    /\ wms[1].ta # wms[2].ta
    /\ wms[1].name # wms[2].name
    /\ call.op = "__iadd__"
    /\ call.w = 2
    /\ call.exc = "none"
    /\ Len(SignalsOf(1)) = 2

-----------------------------------------------------------------------------
(* Properties of evaluation, under SpecTable *)

\* The axis the description of all_signals selects for a signal of w.
Selected(w, sig) ==
    IF sig.ta = None \/ w.force_self_ta THEN w.ta ELSE sig.ta

\* The axis the signal ends up with: the selected one, or its own when the
\* selected one is absent.
Effective(w, sig) ==
    IF Selected(w, sig) # None THEN Selected(w, sig) ELSE sig.ta

\* The label of the column of the signal at 1-based position k.
Label(sigs, k) ==
    IF sigs[k].name = None THEN IntName(k - 1) ELSE The(sigs[k].name)

DistinctLabels(sigs) ==
    \A k, l \in 1..Len(sigs) : k # l => Label(sigs, k) # Label(sigs, l)

\* The timestamps at which column c of a table has a value.
Present(tbl, c) ==
    {tbl.index[p] : p \in {q \in 1..Len(tbl.index) : tbl.columns[c].cells[q] # None}}

AxisTimestamps(a) == Range(TimeAxis_get(The(a)).val)

\* C4 as stated: each signal is computed over the Wavematic's axis if it has
\* no own axis or force_self_ta is set and over its own axis otherwise, and
\* MissingTimeAxis is raised when the selected axis is absent.
C4_AsStated ==
    call.op = "all_signals" =>
        LET w == wms[call.w]
            sigs == SignalsOf(call.w)
        IN  /\ ((\E k \in 1..Len(sigs) : Selected(w, sigs[k]) = None)
                    /\ DistinctLabels(sigs))
                   => call.exc = "MissingTimeAxis"
            /\ call.exc = "none" =>
                   /\ Len(ret.val.columns) = Len(sigs)
                   /\ \A k \in 1..Len(sigs) :
                          /\ Selected(w, sigs[k]) # None
                          /\ Present(ret.val, k) = AxisTimestamps(Selected(w, sigs[k]))

\* C4, amended: each signal, in insertion order, is computed over the
\* Wavematic's axis if the signal has no own axis or force_self_ta is set,
\* except that a signal with an own axis is computed over its own axis when
\* the Wavematic's axis is unset; over its own axis otherwise.
\* MissingTimeAxis is raised only when a signal has no own axis and the
\* Wavematic's axis is unset, and is raised then unless two earlier column
\* labels collide.
C4_AxisSelection ==
    call.op = "all_signals" =>
        LET w == wms[call.w]
            sigs == SignalsOf(call.w)
            missing == \E k \in 1..Len(sigs) : Effective(w, sigs[k]) = None
        IN  /\ call.exc = "MissingTimeAxis" => missing
            /\ (missing /\ DistinctLabels(sigs)) => call.exc = "MissingTimeAxis"
            /\ missing => call.exc # "none"
            /\ call.exc = "none" =>
                   /\ Len(ret.val.columns) = Len(sigs)
                   /\ \A k \in 1..Len(sigs) :
                          Present(ret.val, k) = AxisTimestamps(Effective(w, sigs[k]))

C4_Witness ==
    /\ call.op = "all_signals"
    /\ call.exc = "none"
    /\ wms[call.w].force_self_ta
    /\ wms[call.w].ta = None
    /\ Len(SignalsOf(call.w)) = 2
    /\ Present(ret.val, 1) # Present(ret.val, 2)

\* The series of the signal at position k of Wavematic object i.
SeriesOf(i, k) ==
    Signal_get(SignalsOf(i)[k], Effective(wms[i], SignalsOf(i)[k])).val

\* The sum, over the signals from position k on, of the value each has at
\* timestamp x; a signal without a sample at x contributes nothing.
RECURSIVE SumAt(_, _, _)
SumAt(i, x, k) ==
    IF k > Len(SignalsOf(i)) THEN 0
    ELSE LET s == SeriesOf(i, k)
         IN  (IF x \in Range(s.index) THEN s.vals[PosOf(s.index, x)] ELSE 0)
             + SumAt(i, x, k + 1)

\* C5: when Wavematic.get() returns, the index of the result is the union of
\* the timestamps of the contained signals' series in ascending order, the
\* value at a timestamp is the sum of the values of the signals that have a
\* sample there, and the result is the row-wise sum of the table
\* all_signals() returns.
C5_GetIsSum ==
    (call.op = "get" /\ call.exc = "none") =>
        LET i == call.w
            out == ret.val
            n == Len(out.index)
            tbl == all_signals(wms[i], heap)
        IN  /\ Range(out.index) =
                   UNION {Range(SeriesOf(i, k).index) : k \in 1..Len(SignalsOf(i))}
            /\ \A p, q \in 1..n : p < q => RatLess(out.index[p], out.index[q])
            /\ Len(out.vals) = n
            /\ \A p \in 1..n : out.vals[p] = SumAt(i, out.index[p], 1)
            /\ tbl.exc = "none"
            /\ out.index = tbl.val.index
            /\ \A p \in 1..n : out.vals[p] = SumCells(tbl.val.columns, p, 1)

C5_Witness ==
    /\ call.op = "get"
    /\ call.exc = "none"
    /\ Len(SignalsOf(call.w)) = 2
    /\ LET a == Range(SeriesOf(call.w, 1).index)
           b == Range(SeriesOf(call.w, 2).index)
       IN  a \cap b # {} /\ a \ b # {} /\ b \ a # {}
    /\ \E p \in 1..Len(ret.val.vals) : ret.val.vals[p] # 0

\* C10: for a Wavematic whose signals all have a resolvable axis,
\* all_signals() completes with one column for each signal, in insertion
\* order, labelled by the signal's name or, without a name, by its 0-based
\* position; also when two signals have the same label.
C10_OneColumnEach ==
    call.op = "all_signals" =>
        LET w == wms[call.w]
            sigs == SignalsOf(call.w)
        IN  (\A k \in 1..Len(sigs) : Effective(w, sigs[k]) # None) =>
                /\ call.exc = "none"
                /\ Len(ret.val.columns) = Len(sigs)
                /\ \A k \in 1..Len(sigs) : ret.val.columns[k].name = Label(sigs, k)

====
